---------------------------- MODULE Spec2Model ----------------------------
(***************************************************************************)
(* A model of xacct.py, the wrapper around slurm's sacct.                  *)
(*                                                                         *)
(* The script is a straight pipeline: query builder, record parser, merge  *)
(* loop, sort loop, width computation and output loop.  Each stage is      *)
(* modelled by the actions of one specification, started from the values   *)
(* the previous stage can hand to it:                                      *)
(*                                                                         *)
(*   SpecMem    normalizeMem                                               *)
(*   SpecQuery  the query builder and the record parser                    *)
(*   SpecMerge  the merge loop, one iteration per step                     *)
(*   SpecSort   the sort loop, one key per step                            *)
(*   SpecOut    getColumnWidths and the output loop, one print per step    *)
(*                                                                         *)
(* Python strings are sequences of one-character strings.  A Python value  *)
(* that may be an int or a str is a record [t, i, s] (PyInt, PyStr).  A    *)
(* value that may be None is a sequence of length at most one, << >> being *)
(* None.                                                                   *)
(***************************************************************************)
EXTENDS Integers, Sequences, FiniteSets, TLC

(***************************************************************************)
(* Bounds of the model.                                                    *)
(***************************************************************************)
MaxMantissa == 3
MaxRecords == 3
MaxId == 2
MaxJobs == 3
MaxSortKeys == 2
MaxRows == 2
MaxFormat == 2

\* The padding getColumnWidths is called with
space == 2

VARIABLES
    pc,          \* position of the run: the stage about to run, or how it ended
    x,           \* normalizeMem: the argument
    mem,         \* normalizeMem: the returned value, << >> before the call returns
    sacct_out,   \* the parsed records, in the order sacct gave them
    fromId,      \* args.fromId: << >> (None) or <<T>>
    idjob,       \* the current-job slot: << >> (None) or <<record>>
    line_no,     \* merge loop: index in sacct_out of the record handled next
    sacct_mrg,   \* the merged jobs
    printed,     \* what print() wrote while the merge loop ran
    args_sort,   \* args.sort: the sort keys
    key_no,      \* sort loop: index in args.sort of the key applied next
    sort_in,     \* the merged jobs as the sort loop received them
    stderr,      \* the warnings written to sys.stderr
    printablefmt,   \* the displayed columns, in order
    tsv,            \* args.tsv
    args_no_color,  \* args.no_color
    no_color,       \* no_color: << >> before it is set, then <<TRUE>> or <<FALSE>>
    col_widths,     \* col_widths
    row_no,         \* output loop: index in sacct_mrg of the job printed next
    stdout,         \* the lines written to standard output
    pipe_open,      \* whether the reader of standard output still has it open
    args_format,    \* args.format as given on the command line
    sacctfmt,       \* the fields asked of sacct
    remove,         \* the helper fields added for StateSince
    reader          \* the rows of csv.DictReader over the answer of sacct

memVars == <<x, mem>>
mergeVars == <<sacct_out, fromId, idjob, line_no, printed>>
sortVars == <<args_sort, key_no, sort_in, stderr>>
outVars == <<printablefmt, tsv, args_no_color, no_color, col_widths, row_no, stdout, pipe_open>>
queryVars == <<args_format, sacctfmt, remove, reader>>
vars == <<pc, memVars, mergeVars, sacct_mrg, sortVars, outVars, queryVars>>

\* The variables of the stages a specification does not run
MemIdle == x = << >> /\ mem = << >>
MergeIdle ==
    /\ sacct_out = << >>
    /\ fromId = << >>
    /\ idjob = << >>
    /\ line_no = 1
    /\ printed = << >>
SortIdle == args_sort = << >> /\ key_no = 1 /\ sort_in = << >> /\ stderr = << >>
OutIdle ==
    /\ printablefmt = << >>
    /\ tsv = FALSE
    /\ args_no_color = FALSE
    /\ no_color = << >>
    /\ col_widths = << >>
    /\ row_no = 1
    /\ stdout = << >>
    /\ pipe_open = TRUE
QueryIdle ==
    /\ args_format = << >>
    /\ sacctfmt = << >>
    /\ remove = << >>
    /\ reader = << >>

(***************************************************************************)
(* Python values and strings.                                              *)
(***************************************************************************)
PyInt(n) == [t |-> "int", i |-> n, s |-> << >>]
PyStr(str) == [t |-> "str", i |-> 0, s |-> str]

DigitChars == <<"0", "1", "2", "3", "4", "5", "6", "7", "8", "9">>
Digits == {DigitChars[k] : k \in 1..10}
DigitVal(c) == (CHOOSE k \in 1..10 : DigitChars[k] = c) - 1
Whitespace == {" ", "\t", "\n"}

\* str(n) of a non-negative int
RECURSIVE IntToStr(_)
IntToStr(n) ==
    IF n < 10 THEN <<DigitChars[n + 1]>>
    ELSE Append(IntToStr(n \div 10), DigitChars[(n % 10) + 1])

\* str(v)
PyToStr(v) == IF v.t = "int" THEN IntToStr(v.i) ELSE v.s

\* str.lstrip(chars), str.rstrip(chars), str.strip(chars)
RECURSIVE LStrip(_, _)
LStrip(str, chars) ==
    IF str # << >> /\ Head(str) \in chars THEN LStrip(Tail(str), chars) ELSE str

RECURSIVE RStrip(_, _)
RStrip(str, chars) ==
    IF str # << >> /\ str[Len(str)] \in chars
    THEN RStrip(SubSeq(str, 1, Len(str) - 1), chars)
    ELSE str

Strip(str, chars) == RStrip(LStrip(str, chars), chars)

\* str.endswith(suffix)
EndsWith(str, suffix) ==
    /\ Len(suffix) <= Len(str)
    /\ SubSeq(str, Len(str) - Len(suffix) + 1, Len(str)) = suffix

\* sub in str
Contains(str, sub) ==
    \E k \in 1..(Len(str) - Len(sub) + 1) : SubSeq(str, k, k + Len(sub) - 1) = sub

\* str.replace(old, new), for a non-empty old
RECURSIVE Replace(_, _, _)
Replace(str, old, new) ==
    IF Len(str) < Len(old) THEN str
    ELSE IF SubSeq(str, 1, Len(old)) = old
         THEN new \o Replace(SubSeq(str, Len(old) + 1, Len(str)), old, new)
         ELSE <<Head(str)>> \o Replace(Tail(str), old, new)

\* The literals float() and int() accept, as far as the model needs them:
\* decimal digits, surrounding whitespace allowed.
IsNumeral(str) ==
    LET core == Strip(str, Whitespace)
    IN  core # << >> /\ \A k \in 1..Len(core) : core[k] \in Digits

RECURSIVE DigitsToInt(_)
DigitsToInt(str) ==
    IF str = << >> THEN 0
    ELSE 10 * DigitsToInt(SubSeq(str, 1, Len(str) - 1)) + DigitVal(str[Len(str)])

ParseNumber(str) == DigitsToInt(Strip(str, Whitespace))

\* round(num / den) of Python 3: to the nearest integer, a tie to the even one
Round(num, den) ==
    LET q == num \div den
        r == num % den
    IN  IF 2 * r < den THEN q
        ELSE IF 2 * r > den THEN q + 1
        ELSE IF q % 2 = 0 THEN q ELSE q + 1

Pow2(k) == 2 ^ k

(***************************************************************************)
(* normalizeMem.  The result is [raised, val]: the exception float() raises*)
(* on a non-number, or the value returned.                                 *)
(***************************************************************************)
Returned(v) == [raised |-> "", val |-> v]
Raised(e) == [raised |-> e, val |-> PyStr(<< >>)]

\* The branch taken: the exponent e of its multiplier 2**e, and the text
\* handed to float()
MemUnit(x1) ==
    IF EndsWith(x1, <<"K">>) THEN [e |-> 10, num |-> Strip(x1, {"K"})]
    ELSE IF EndsWith(x1, <<"M">>) THEN [e |-> 20, num |-> Strip(x1, {"M"})]
    ELSE IF EndsWith(x1, <<"G">>) THEN [e |-> 30, num |-> Strip(x1, {"G"})]
    ELSE [e |-> 0, num |-> x1]

\* int(mem / 2**20) in place of round(mem / 2**20)
RoundMiBTruncating(n, e) ==
    IF e >= 20 THEN n * Pow2(e - 20) ELSE n \div Pow2(20 - e)

\* round(n * 2**e / 2**20).  The float product and quotient are exact on the
\* integers of the model, so the common power of two is cancelled first; this
\* keeps the intermediate n * 2**30 out of the arithmetic.
RoundMiB(n, e) ==
    IF e >= 20 THEN n * Pow2(e - 20) ELSE Round(n, Pow2(20 - e))

normalizeMem(str) ==
    IF Strip(str, Whitespace) = << >> THEN Returned(PyStr(<< >>))
    ELSE LET x1 == Strip(Strip(str, {"n"}), {"c"})
             u == MemUnit(x1)
         IN  IF ~IsNumeral(u.num) THEN Raised("ValueError")
             ELSE Returned(PyInt(RoundMiB(ParseNumber(u.num), u.e)))

(***************************************************************************)
(* SpecMem: one call of normalizeMem on a memory string of sacct.          *)
(***************************************************************************)
MemExponents == {0, 9, 10, 19, 20}
MemNumbers ==
    {n \in {a * Pow2(b) + d : a \in 0..MaxMantissa, b \in MemExponents, d \in {-1, 0, 1}}
        \cup {500} : n >= 0}
MemUnits == {<< >>, <<"K">>, <<"M">>, <<"G">>}
MemSuffixes == {<< >>, <<"n">>, <<"c">>}
MemArgs == {a \in MemNumbers \X MemUnits : a[2] = <<"G">> => a[1] < Pow2(20)}
MemInputs ==
    {IntToStr(a[1]) \o a[2] \o sfx : a \in MemArgs, sfx \in MemSuffixes}
        \cup {<< >>, <<" ">>, <<" ", " ">>, <<"\t">>}
        \cup {u \o sfx : u \in MemUnits \ {<< >>}, sfx \in MemSuffixes}

InitMem ==
    /\ pc = "normalizeMem"
    /\ x \in MemInputs
    /\ mem = << >>
    /\ sacct_mrg = << >>
    /\ MergeIdle
    /\ SortIdle
    /\ OutIdle
    /\ QueryIdle

NormalizeMemCall ==
    /\ pc = "normalizeMem"
    /\ LET r == normalizeMem(x)
       IN  IF r.raised # ""
           THEN /\ pc' = r.raised
                /\ mem' = mem
           ELSE /\ pc' = "returned"
                /\ mem' = <<r.val>>
    /\ UNCHANGED <<x, mergeVars, sacct_mrg, sortVars, outVars, queryVars>>

NextMem == NormalizeMemCall

SpecMem == InitMem /\ [][NextMem]_vars

\* r is an integer nearest to n / d
IsNearest(r, n, d) ==
    LET diff == IF r * d >= n THEN r * d - n ELSE n - r * d
    IN  2 * diff <= d

\* C8: for a non-negative integer n, normalizeMem gives an integer count of
\* mebibytes: n followed by G gives n*1024, by M gives n, by K gives n/1024
\* rounded to an integer, and n alone gives n/2^20 rounded to an integer; a
\* trailing n or c does not change the result and no such input raises; an
\* empty or whitespace-only input gives the empty string and not 0; and
\* "2G" gives 2048, "1024K" gives 1, "" gives "", "500Mn" gives 500.
C8_NormalizeMem ==
    /\ \A a \in MemArgs, sfx \in MemSuffixes :
          x = IntToStr(a[1]) \o a[2] \o sfx =>
            /\ pc # "ValueError"
            /\ pc = "returned" =>
                  /\ mem[1].t = "int"
                  /\ a[2] = <<"G">> => mem[1].i = a[1] * 1024
                  /\ a[2] = <<"M">> => mem[1].i = a[1]
                  /\ a[2] = <<"K">> => IsNearest(mem[1].i, a[1], 1024)
                  /\ a[2] = << >> => IsNearest(mem[1].i, a[1], 1048576)
                  /\ normalizeMem(IntToStr(a[1]) \o a[2]) = Returned(mem[1])
    /\ (Strip(x, Whitespace) = << >>) =>
          /\ pc # "ValueError"
          /\ pc = "returned" => mem[1] = PyStr(<< >>) /\ mem[1] # PyInt(0)
    /\ (pc = "returned" /\ x = <<"2", "G">>) => mem[1] = PyInt(2048)
    /\ (pc = "returned" /\ x = <<"1", "0", "2", "4", "K">>) => mem[1] = PyInt(1)
    /\ (pc = "returned" /\ x = << >>) => mem[1] = PyStr(<< >>)
    /\ (pc = "returned" /\ x = <<"5", "0", "0", "M", "n">>) => mem[1] = PyInt(500)

\* 1536K with the suffix of ReqMem is 1.5 MiB and has been rounded to 2
C8_Witness ==
    /\ pc = "returned"
    /\ x = <<"1", "5", "3", "6", "K", "n">>
    /\ mem = <<PyInt(2)>>

(***************************************************************************)
(* The merge loop.  A record is a function from column names to values;    *)
(* every record of a run has the columns of printablefmt.                  *)
(***************************************************************************)
\* The column names the model uses
State == <<"S", "t", "a", "t", "e">>
JobID == <<"J", "o", "b", "I", "D">>
MaxRSS == <<"M", "a", "x", "R", "S", "S">>
Elapsed == <<"E", "l", "a", "p", "s", "e", "d">>
StateSince == <<"S", "t", "a", "t", "e", "S", "i", "n", "c", "e">>
Start == <<"S", "t", "a", "r", "t">>
End == <<"E", "n", "d">>
Submit == <<"S", "u", "b", "m", "i", "t">>
ReqMem == <<"R", "e", "q", "M", "e", "m">>
JobName == <<"J", "o", "b", "N", "a", "m", "e">>
NodeList == <<"N", "o", "d", "e", "L", "i", "s", "t">>
AllocCPUS == <<"A", "l", "l", "o", "c", "C", "P", "U", "S">>
FMT == <<"F", "M", "T">>

DotBatch == <<".", "b", "a", "t", "c", "h">>

\* '.batch' in line['JobID']
IsBatch(line) == Contains(line[JobID].s, DotBatch)

\* line['JobID'].replace('.batch', '')
StripBatch(line) == Replace(line[JobID].s, DotBatch, << >>)

\* The --fromId test of the loop
Skipped(line) ==
    /\ fromId # << >>
    /\ fromId[1] >= ParseNumber(StripBatch(line))

\* fillInJob without the copy
fillInJobNoCopy(jobid, batchid) == jobid

fillInJob(jobid, batchid) ==
    IF MaxRSS \in DOMAIN jobid
    THEN [jobid EXCEPT ![MaxRSS] = batchid[MaxRSS]]
    ELSE jobid

\* The records sacct can give: a job or its batch step, with the memory the
\* parser left in MaxRSS ('.' for an empty field) when that column is shown.
MemValues == {PyStr(<<".">>), PyInt(7)}
JobIDs == {PyStr(IntToStr(n) \o m) : n \in 1..MaxId, m \in {<< >>, DotBatch}}
RecordsWith(cols) ==
    IF MaxRSS \in cols
    THEN {[c \in cols |-> IF c = JobID THEN r[1] ELSE r[2]] : r \in JobIDs \X MemValues}
    ELSE {[c \in cols |-> r] : r \in JobIDs}
SeqsUpTo(S, n) == UNION {[1..k -> S] : k \in 0..n}

InitMerge ==
    /\ pc = "merge"
    /\ \E cols \in {{JobID}, {JobID, MaxRSS}} :
           sacct_out \in SeqsUpTo(RecordsWith(cols), MaxRecords)
    /\ fromId \in {<< >>} \cup {<<t>> : t \in 1..MaxId}
    /\ idjob = << >>
    /\ line_no = 1
    /\ sacct_mrg = << >>
    /\ printed = << >>
    /\ MemIdle
    /\ SortIdle
    /\ OutIdle
    /\ QueryIdle

InLoop == pc = "merge" /\ line_no <= Len(sacct_out)
line == sacct_out[line_no]

\* if args.fromId is not None and args.fromId >= int(...): continue
MergeSkip ==
    /\ InLoop
    /\ Skipped(line)
    /\ line_no' = line_no + 1
    /\ UNCHANGED <<pc, sacct_out, fromId, idjob, sacct_mrg, printed, memVars, sortVars, outVars, queryVars>>

\* A record without '.batch': the job in the slot has no batch record and
\* is appended; the record takes the slot.
MergeJob ==
    /\ InLoop
    /\ ~Skipped(line)
    /\ ~IsBatch(line)
    /\ sacct_mrg' = sacct_mrg \o idjob
    /\ idjob' = <<line>>
    /\ line_no' = line_no + 1
    /\ UNCHANGED <<pc, sacct_out, fromId, printed, memVars, sortVars, outVars, queryVars>>

\* A '.batch' record of the job in the slot
MergeBatch ==
    /\ InLoop
    /\ ~Skipped(line)
    /\ IsBatch(line)
    /\ idjob # << >>
    /\ idjob[1][JobID].s = StripBatch(line)
    /\ sacct_mrg' = Append(sacct_mrg, fillInJob(idjob[1], line))
    /\ idjob' = << >>
    /\ line_no' = line_no + 1
    /\ UNCHANGED <<pc, sacct_out, fromId, printed, memVars, sortVars, outVars, queryVars>>

\* A '.batch' record of another job than the one in the slot
MergeMismatch ==
    /\ InLoop
    /\ ~Skipped(line)
    /\ IsBatch(line)
    /\ idjob # << >>
    /\ idjob[1][JobID].s # StripBatch(line)
    /\ printed' = printed \o <<idjob[1], line>>
    /\ pc' = "Exception: Cannot find job id"
    /\ UNCHANGED <<sacct_out, fromId, idjob, line_no, sacct_mrg, memVars, sortVars, outVars, queryVars>>

\* A '.batch' record while the slot is None: idjob['JobID'] subscripts None
MergeNoJob ==
    /\ InLoop
    /\ ~Skipped(line)
    /\ IsBatch(line)
    /\ idjob = << >>
    /\ pc' = "TypeError"
    /\ UNCHANGED <<sacct_out, fromId, idjob, line_no, sacct_mrg, printed, memVars, sortVars, outVars, queryVars>>

\* After the loop: if idjob is not None: sacct_mrg.append(idjob)
MergeEnd ==
    /\ pc = "merge"
    /\ line_no > Len(sacct_out)
    /\ sacct_mrg' = sacct_mrg \o idjob
    /\ pc' = "sort"
    /\ UNCHANGED <<sacct_out, fromId, idjob, line_no, printed, memVars, sortVars, outVars, queryVars>>

NextMerge ==
    \/ MergeSkip
    \/ MergeJob
    \/ MergeBatch
    \/ MergeMismatch
    \/ MergeNoJob
    \/ MergeEnd

SpecMerge == InitMerge /\ [][NextMerge]_vars

Failed == pc \in {"TypeError", "Exception: Cannot find job id"}

\* The unmarked records the --fromId test lets through, by position
ShownAt == {k \in 1..Len(sacct_out) : ~IsBatch(sacct_out[k]) /\ ~Skipped(sacct_out[k])}

\* One output record per unmarked record, in input order, the job with a
\* batch record right after it carrying that record's MaxRSS
MergedAsExpected ==
    /\ Len(sacct_mrg) = Cardinality(ShownAt)
    /\ \A k \in ShownAt :
          LET j == Cardinality({m \in ShownAt : m <= k})
              job == sacct_out[k]
          IN  /\ DOMAIN sacct_mrg[j] = DOMAIN job
              /\ \A c \in DOMAIN job \ {MaxRSS} : sacct_mrg[j][c] = job[c]
              /\ MaxRSS \in DOMAIN job =>
                    IF k < Len(sacct_out) /\ IsBatch(sacct_out[k + 1])
                    THEN sacct_mrg[j][MaxRSS] = sacct_out[k + 1][MaxRSS]
                    ELSE sacct_mrg[j][MaxRSS] = job[MaxRSS]

\* Every batch-marked record comes right after the unmarked record of its job
BatchFollowsItsJob ==
    \A k \in 1..Len(sacct_out) :
        IsBatch(sacct_out[k]) =>
            /\ k > 1
            /\ ~IsBatch(sacct_out[k - 1])
            /\ sacct_out[k - 1][JobID].s = StripBatch(sacct_out[k])

\* Every batch-marked record has exactly one unmarked record of its job
\* somewhere before it
BatchHasOneJobBefore ==
    \A k \in 1..Len(sacct_out) :
        IsBatch(sacct_out[k]) =>
            Cardinality({j \in 1..(k - 1) :
                /\ ~IsBatch(sacct_out[j])
                /\ sacct_out[j][JobID].s = StripBatch(sacct_out[k])}) = 1

\* C1, as amended: when every batch-marked record immediately follows the
\* unmarked record whose identifier is its own with '.batch' stripped, the
\* merge loop finishes without error and gives one record per unmarked
\* record that --fromId does not skip, in input order, each job that has a
\* batch record carrying that record's MaxRSS when MaxRSS is a column.
C1_MergeAdjacent ==
    BatchFollowsItsJob =>
        /\ ~Failed
        /\ pc = "sort" => MergedAsExpected

\* A job with memory '.', then its batch record with memory 7, then a job
\* without batch record: two jobs come out, the first one with memory 7.
C1_Witness ==
    /\ pc = "sort"
    /\ BatchFollowsItsJob
    /\ Len(sacct_out) = 3
    /\ IsBatch(sacct_out[2])
    /\ MaxRSS \in DOMAIN sacct_out[1]
    /\ sacct_out[1][MaxRSS] # sacct_out[2][MaxRSS]
    /\ Len(sacct_mrg) = 2
    /\ sacct_mrg[1][MaxRSS] = sacct_out[2][MaxRSS]

\* C1, as claimed: it is enough that every batch-marked record has exactly
\* one preceding unmarked record with its stripped identifier.
C1_MergeAnyPreceding ==
    BatchHasOneJobBefore =>
        /\ ~Failed
        /\ pc = "sort" => MergedAsExpected

\* C2: whenever the loop reaches a batch-marked record whose stripped
\* identifier is not the identifier in the current-job slot (another job, or
\* no job at all), the run aborts with 'Cannot find job id' after printing
\* both records, and nothing more is merged.
C2_MismatchAborts ==
    [][(/\ InLoop
        /\ ~Skipped(line)
        /\ IsBatch(line)
        /\ (idjob = << >> \/ idjob[1][JobID].s # StripBatch(line)))
       => (/\ pc' = "Exception: Cannot find job id"
           /\ printed' = printed \o idjob \o <<line>>
           /\ sacct_mrg' = sacct_mrg)]_vars

\* C3: with a threshold T given, the jobs shown are exactly the jobs whose
\* identifier is T or greater.
C3_FromIdShowsEqualOrGreater ==
    (pc = "sort" /\ fromId # << >>) =>
        /\ \A k \in 1..Len(sacct_out) :
              (~IsBatch(sacct_out[k]) /\ ParseNumber(StripBatch(sacct_out[k])) >= fromId[1])
                  => \E j \in 1..Len(sacct_mrg) :
                        sacct_mrg[j][JobID] = sacct_out[k][JobID]
        /\ \A j \in 1..Len(sacct_mrg) :
              ParseNumber(StripBatch(sacct_mrg[j])) >= fromId[1]

\* No batch-marked identifier is left in the merged jobs: the table handed
\* to the sort and to the output has job records only.
MergedHasNoBatch == \A j \in 1..Len(sacct_mrg) : ~IsBatch(sacct_mrg[j])

(***************************************************************************)
(* The sort loop.                                                          *)
(***************************************************************************)
\* ord(c) of the characters the compared values are made of
Ord(c) ==
    CASE c = "-" -> 45
      [] c = "." -> 46
      [] c = ":" -> 58
      [] c = "T" -> 84
      [] OTHER -> 48 + DigitVal(c)

\* a < b on two str
RECURSIVE StrLess(_, _)
StrLess(a, b) ==
    IF b = << >> THEN FALSE
    ELSE IF a = << >> THEN TRUE
    ELSE IF Head(a) # Head(b) THEN Ord(Head(a)) < Ord(Head(b))
    ELSE StrLess(Tail(a), Tail(b))

\* a < b on two values of one type; Python raises TypeError on an int and a str
PyLess(a, b) == IF a.t = "int" THEN a.i < b.i ELSE StrLess(a.s, b.s)

Reverse(lst) == [k \in 1..Len(lst) |-> lst[Len(lst) + 1 - k]]

\* list.sort keeps the elements that compare equal in their order: each
\* element goes in front of the first one that is greater.
RECURSIVE InsertByKey(_, _, _)
InsertByKey(rec, lst, s) ==
    IF lst = << >> THEN <<rec>>
    ELSE IF PyLess(rec[s], Head(lst)[s]) THEN <<rec>> \o lst
    ELSE <<Head(lst)>> \o InsertByKey(rec, Tail(lst), s)

RECURSIVE StableSort(_, _)
StableSort(lst, s) ==
    IF lst = << >> THEN << >>
    ELSE InsertByKey(lst[Len(lst)], StableSort(SubSeq(lst, 1, Len(lst) - 1), s), s)

\* sorted(lst, key=lambda k: k[s], reverse=rev): CPython reverses the list,
\* sorts it and reverses it again when reverse is set.
Sorted(lst, s, rev) ==
    IF rev THEN Reverse(StableSort(Reverse(lst), s)) ELSE StableSort(lst, s)

\* k[s] raises KeyError on the first record
KeyMissing(lst, s) == lst # << >> /\ s \notin DOMAIN lst[1]

\* The keys are ints and strs: the first comparison of the two types raises
MixedTypes(lst, s) == \E j, k \in 1..Len(lst) : lst[j][s].t # lst[k][s].t

\* The loop variable s and rev after the suffix test
InSortLoop == pc = "sort loop" /\ key_no <= Len(args_sort)
\* s.endswith('-'), and s after re.sub('-$', '', s) when it does
KeyRev(key) == EndsWith(key, <<"-">>)
KeyName(key) == IF KeyRev(key) THEN SubSeq(key, 1, Len(key) - 1) ELSE key
SortKeyRev == KeyRev(args_sort[key_no])
SortKeyName == KeyName(args_sort[key_no])

\* The merged jobs: job identifiers as sacct prints them and the memory
\* column after normalizeMem ('.' where sacct gave no value).
SortIds == {PyStr(IntToStr(n)) : n \in {9, 10}}
SortMem == {PyInt(9), PyInt(10), PyStr(<<".">>)}
SortRecords == {[c \in {JobID, MaxRSS} |-> IF c = JobID THEN r[1] ELSE r[2]] :
                    r \in SortIds \X SortMem}
SortKeys == {c \o m : c \in {JobID, MaxRSS, Elapsed}, m \in {<< >>, <<"-">>}}

InitSort ==
    /\ pc = "sort"
    /\ sacct_mrg \in SeqsUpTo(SortRecords, MaxJobs)
    /\ args_sort \in SeqsUpTo(SortKeys, MaxSortKeys)
    /\ key_no = 1
    /\ sort_in = sacct_mrg
    /\ stderr = << >>
    /\ MemIdle
    /\ MergeIdle
    /\ OutIdle
    /\ QueryIdle

\* args.sort.reverse()
SortReverse ==
    /\ pc = "sort"
    /\ args_sort' = Reverse(args_sort)
    /\ pc' = "sort loop"
    /\ UNCHANGED <<sacct_mrg, key_no, sort_in, stderr, memVars, mergeVars, outVars, queryVars>>

SortByKey ==
    /\ InSortLoop
    /\ ~KeyMissing(sacct_mrg, SortKeyName)
    /\ ~MixedTypes(sacct_mrg, SortKeyName)
    /\ sacct_mrg' = Sorted(sacct_mrg, SortKeyName, SortKeyRev)
    /\ key_no' = key_no + 1
    /\ UNCHANGED <<pc, args_sort, sort_in, stderr, memVars, mergeVars, outVars, queryVars>>

\* except KeyError: the key is reported and the loop goes on
SortKeyNotFound ==
    /\ InSortLoop
    /\ KeyMissing(sacct_mrg, SortKeyName)
    /\ stderr' = Append(stderr, [msg |-> "Sort key not found", key |-> SortKeyName])
    /\ key_no' = key_no + 1
    /\ UNCHANGED <<pc, sacct_mrg, args_sort, sort_in, memVars, mergeVars, outVars, queryVars>>

\* An int and a str under one key: '<' raises TypeError, which nothing catches
SortTypeError ==
    /\ InSortLoop
    /\ ~KeyMissing(sacct_mrg, SortKeyName)
    /\ MixedTypes(sacct_mrg, SortKeyName)
    /\ pc' = "TypeError"
    /\ UNCHANGED <<sacct_mrg, sortVars, memVars, mergeVars, outVars, queryVars>>

SortEnd ==
    /\ pc = "sort loop"
    /\ key_no > Len(args_sort)
    /\ pc' = "present"
    /\ UNCHANGED <<sacct_mrg, sortVars, memVars, mergeVars, outVars, queryVars>>

NextSort ==
    \/ SortReverse
    \/ SortByKey
    \/ SortKeyNotFound
    \/ SortTypeError
    \/ SortEnd

SpecSort == InitSort /\ [][NextSort]_vars

\* The keys as declared on the command line (the loop holds them reversed)
DeclaredKeys == IF pc = "sort" THEN args_sort ELSE Reverse(args_sort)

\* Record a goes before record b under the declared keys, each compared by
\* its string value: at the first key they differ on, a is the smaller one
\* (the greater one under a key with the '-' suffix).
GoesBefore(a, b, keys) ==
    \E k \in 1..Len(keys) :
        /\ \A m \in 1..(k - 1) : a[KeyName(keys[m])] = b[KeyName(keys[m])]
        /\ LET sa == PyToStr(a[KeyName(keys[k])])
               sb == PyToStr(b[KeyName(keys[k])])
           IN  IF KeyRev(keys[k]) THEN StrLess(sb, sa) ELSE StrLess(sa, sb)

EqualOnKeys(a, b, keys) ==
    \A k \in 1..Len(keys) : a[KeyName(keys[k])] = b[KeyName(keys[k])]

Bijections(n) == {p \in [1..n -> 1..n] : \A j, k \in 1..n : p[j] = p[k] => j = k}

\* C5: for sort keys that are all columns of the records, the sort loop ends
\* with a permutation of its input ordered by the keys in declaration order,
\* each key compared by its string value, descending under the '-' suffix,
\* the records equal on every key in their input order.
C5_SortedByStringValue ==
    (\A k \in 1..Len(args_sort) : KeyName(args_sort[k]) \in {JobID, MaxRSS}) =>
        /\ pc # "TypeError"
        /\ pc = "present" =>
              \E p \in Bijections(Len(sort_in)) :
                  /\ Len(sacct_mrg) = Len(sort_in)
                  /\ \A j \in 1..Len(sort_in) : sacct_mrg[j] = sort_in[p[j]]
                  /\ \A j, k \in 1..Len(sort_in) :
                        j < k =>
                            \/ GoesBefore(sacct_mrg[j], sacct_mrg[k], DeclaredKeys)
                            \/ /\ EqualOnKeys(sacct_mrg[j], sacct_mrg[k], DeclaredKeys)
                               /\ p[j] < p[k]

(***************************************************************************)
(* The presenter: colorize, getColumnWidths, tabulate and the output loop. *)
(* "ESC" stands for the one character \033.                                *)
(***************************************************************************)
UpperChars == <<"A", "B", "C", "D", "E", "F", "G", "H", "I", "J", "K", "L", "M",
                "N", "O", "P", "Q", "R", "S", "T", "U", "V", "W", "X", "Y", "Z">>
LowerChars == <<"a", "b", "c", "d", "e", "f", "g", "h", "i", "j", "k", "l", "m",
                "n", "o", "p", "q", "r", "s", "t", "u", "v", "w", "x", "y", "z">>
LowerMap == [c \in {UpperChars[k] : k \in 1..26} |->
                LowerChars[CHOOSE k \in 1..26 : UpperChars[k] = c]]
LowerChar(c) == IF c \in DOMAIN LowerMap THEN LowerMap[c] ELSE c
\* str.lower()
Lower(str) == [k \in 1..Len(str) |-> LowerChar(str[k])]

FAILED == <<"F", "A", "I", "L", "E", "D">>
COMPLETED == <<"C", "O", "M", "P", "L", "E", "T", "E", "D">>
RUNNING == <<"R", "U", "N", "N", "I", "N", "G">>
AnsiReset == <<"ESC", "[", "0", "m">>

\* colorize, on one element of the list
ColorizeValue(v) ==
    IF v = PyStr(FAILED) THEN PyStr(<<"ESC", "[", "3", "1", "m">> \o FAILED \o AnsiReset)
    ELSE IF v = PyStr(COMPLETED)
         THEN PyStr(<<"ESC", "[", "3", "2", "m">> \o COMPLETED \o AnsiReset)
    ELSE IF v = PyStr(RUNNING)
         THEN PyStr(<<"ESC", "[", "9", "4", "m">> \o RUNNING \o AnsiReset)
    ELSE v

colorize(lst) == [k \in 1..Len(lst) |-> ColorizeValue(lst[k])]

\* The length of the match of \033\[[;\d]*m at the head of str, 0 without one
AnsiMatch(str) ==
    IF Len(str) >= 3 /\ str[1] = "ESC" /\ str[2] = "["
    THEN LET stop == CHOOSE k \in 3..(Len(str) + 1) :
                        /\ \A m \in 3..(k - 1) : str[m] \in Digits \cup {";"}
                        /\ (k = Len(str) + 1 \/ str[k] \notin Digits \cup {";"})
         IN  IF stop <= Len(str) /\ str[stop] = "m" THEN stop ELSE 0
    ELSE 0

\* re.sub('\\033\\[[;\\d]*m', '', str)
RECURSIVE StripAnsi(_)
StripAnsi(str) ==
    IF str = << >> THEN << >>
    ELSE LET m == AnsiMatch(str)
         IN  IF m > 0 THEN StripAnsi(SubSeq(str, m + 1, Len(str)))
             ELSE <<Head(str)>> \o StripAnsi(Tail(str))

\* list(line.values()): the values of a record, in the order of its columns
Values(rec, header) == [k \in 1..Len(header) |-> rec[header[k]]]

\* The text getColumnWidths measures for column k of a list of values
Measured(values, header, k) ==
    LET v == StripAnsi(PyToStr(values[k]))
    IN  IF Lower(header[k]) = Lower(JobID) /\ EndsWith(v, DotBatch)
        THEN SubSeq(v, 1, Len(v) - Len(DotBatch))
        ELSE v

\* The loop over data of getColumnWidths, widths being the list so far
RECURSIVE WidthsOver(_, _, _, _)
WidthsOver(data, header, nocolor, widths) ==
    IF data = << >> THEN widths
    ELSE LET values == IF nocolor THEN Head(data) ELSE colorize(Head(data))
             upd == [k \in 1..Len(widths) |->
                        LET n == Len(Measured(values, header, k))
                        IN  IF widths[k] < n THEN n ELSE widths[k]]
         IN  WidthsOver(Tail(data), header, nocolor, upd)

getColumnWidths(sacct, header, spc, nocolor) ==
    LET hdr == [k \in 1..Len(header) |-> PyStr(header[k])]
        data == <<hdr>> \o [k \in 1..Len(sacct) |-> Values(sacct[k], header)]
        widths == WidthsOver(data, header, nocolor, [k \in 1..Len(header) |-> 0])
    IN  [k \in 1..Len(widths) |-> widths[k] + spc]

\* '{:<w}'.format(v)
FormatLeft(v, w) ==
    LET str == PyToStr(v)
    IN  IF Len(str) >= w THEN str ELSE str \o [k \in 1..(w - Len(str)) |-> " "]

RECURSIVE Concat(_)
Concat(strs) == IF strs = << >> THEN << >> ELSE Head(strs) \o Concat(Tail(strs))

\* '\t'.join(strs)
RECURSIVE JoinTab(_)
JoinTab(strs) ==
    IF strs = << >> THEN << >>
    ELSE IF Len(strs) = 1 THEN strs[1]
    ELSE strs[1] \o <<"\t">> \o JoinTab(Tail(strs))

\* tabulate that pads every cell to the stored width, escapes included
tabulateNoOffset(values, widths, asTsv, nocolor) ==
    IF asTsv THEN JoinTab([k \in 1..Len(values) |-> PyToStr(values[k])])
    ELSE LET lst == IF nocolor THEN values ELSE colorize(values)
         IN  Concat([k \in 1..Len(widths) |-> FormatLeft(lst[k], widths[k])])

tabulate(values, widths, asTsv, nocolor) ==
    IF asTsv THEN JoinTab([k \in 1..Len(values) |-> PyToStr(values[k])])
    ELSE LET lst == IF nocolor THEN values ELSE colorize(values)
             offset(k) == Len(PyToStr(lst[k])) - Len(StripAnsi(PyToStr(lst[k])))
             exp_widths == [k \in 1..Len(widths) |-> widths[k] + offset(k)]
         IN  Concat([k \in 1..Len(exp_widths) |-> FormatLeft(lst[k], exp_widths[k])])

\* The header as tabulate receives it
HeaderValues == [k \in 1..Len(printablefmt) |-> PyStr(printablefmt[k])]

\* The tables the sort loop hands over: jobs only, the state as sacct names
\* it (or a text that brings its own escape sequence), the memory as
\* normalizeMem left it.
OutHeaders == {<<JobID>>, <<State, MaxRSS, JobID>>}
OutValues(c) ==
    IF c = JobID THEN {PyStr(IntToStr(n)) : n \in {7, 12}}
    ELSE IF c = State
         THEN {PyStr(RUNNING), PyStr(COMPLETED),
               PyStr(<<"ESC", "[", "1", ";", "4", "m", "P", "D">>)}
    ELSE {PyInt(2048), PyStr(<<".">>)}
Columns(header) == {header[k] : k \in 1..Len(header)}
OutRecords(header) ==
    {rec \in [Columns(header) -> UNION {OutValues(c) : c \in Columns(header)}] :
        \A c \in Columns(header) : rec[c] \in OutValues(c)}

InitOut ==
    /\ pc = "present"
    /\ printablefmt \in OutHeaders
    /\ sacct_mrg \in SeqsUpTo(OutRecords(printablefmt), MaxRows)
    /\ tsv \in BOOLEAN
    /\ args_no_color \in BOOLEAN
    /\ no_color = << >>
    /\ col_widths = << >>
    /\ row_no = 1
    /\ stdout = << >>
    /\ pipe_open = TRUE
    /\ MemIdle
    /\ MergeIdle
    /\ SortIdle
    /\ QueryIdle

\* if args.tsv: no_color= True, else no_color= args.no_color.  (The tables of
\* the model have no date column: simplify_datetime leaves them as they are.)
SetNoColor ==
    /\ pc = "present"
    /\ no_color' = <<IF tsv THEN TRUE ELSE args_no_color>>
    /\ pc' = "widths"
    /\ UNCHANGED <<printablefmt, tsv, args_no_color, col_widths, row_no, stdout, pipe_open,
                   sacct_mrg, memVars, mergeVars, sortVars, queryVars>>

ComputeWidths ==
    /\ pc = "widths"
    /\ col_widths' = getColumnWidths(sacct_mrg, printablefmt, space, no_color[1])
    /\ pc' = "header"
    /\ UNCHANGED <<printablefmt, tsv, args_no_color, no_color, row_no, stdout, pipe_open,
                   sacct_mrg, memVars, mergeVars, sortVars, queryVars>>

\* The reader goes away (head, a pager that quits): from then on a write to
\* standard output raises BrokenPipeError.  A reader gone before the first
\* print is gone at the first print.
ClosePipe ==
    /\ pc \in {"header", "rows"}
    /\ pipe_open
    /\ pipe_open' = FALSE
    /\ UNCHANGED <<pc, printablefmt, tsv, args_no_color, no_color, col_widths, row_no, stdout,
                   sacct_mrg, memVars, mergeVars, sortVars, queryVars>>

\* print(tabulate(printablefmt, ...)) before the try statement
PrintHeader ==
    /\ pc = "header"
    /\ IF pipe_open
       THEN /\ stdout' = Append(stdout, tabulate(HeaderValues, col_widths, tsv, no_color[1]))
            /\ pc' = "rows"
       ELSE /\ stdout' = stdout
            /\ pc' = "BrokenPipeError"
    /\ UNCHANGED <<printablefmt, tsv, args_no_color, no_color, col_widths, row_no, pipe_open,
                   sacct_mrg, memVars, mergeVars, sortVars, queryVars>>

\* One iteration of the loop inside the try statement
PrintRow ==
    /\ pc = "rows"
    /\ row_no <= Len(sacct_mrg)
    /\ IF pipe_open
       THEN /\ stdout' = Append(stdout, tabulate(Values(sacct_mrg[row_no], printablefmt),
                                                col_widths, tsv, no_color[1]))
            /\ row_no' = row_no + 1
            /\ pc' = pc
       ELSE /\ stdout' = stdout
            /\ row_no' = row_no
            /\ pc' = "exit"
    /\ UNCHANGED <<printablefmt, tsv, args_no_color, no_color, col_widths, pipe_open,
                   sacct_mrg, memVars, mergeVars, sortVars, queryVars>>

\* print(tabulate(printablefmt, ...)) after the loop, inside the try statement
PrintFooter ==
    /\ pc = "rows"
    /\ row_no > Len(sacct_mrg)
    /\ stdout' = IF pipe_open
                 THEN Append(stdout, tabulate(HeaderValues, col_widths, tsv, no_color[1]))
                 ELSE stdout
    /\ pc' = "exit"
    /\ UNCHANGED <<printablefmt, tsv, args_no_color, no_color, col_widths, row_no, pipe_open,
                   sacct_mrg, memVars, mergeVars, sortVars, queryVars>>

NextOut ==
    \/ SetNoColor
    \/ ComputeWidths
    \/ ClosePipe
    \/ PrintHeader
    \/ PrintRow
    \/ PrintFooter

SpecOut == InitOut /\ [][NextOut]_vars

Max(S) == CHOOSE m \in S : \A n \in S : n <= m

RECURSIVE SumSeq(_)
SumSeq(q) == IF q = << >> THEN 0 ELSE Head(q) + SumSeq(Tail(q))

Spaces(n) == [k \in 1..n |-> " "]

\* The printable length of a cell: its text without the escape sequences
PrintableLen(v) == Len(StripAnsi(PyToStr(v)))

\* Per column, the longest printable cell of the header and the rows, plus 2
ExpectedWidths ==
    [k \in 1..Len(printablefmt) |->
        2 + Max({PrintableLen(PyStr(printablefmt[k]))} \cup
                {PrintableLen(sacct_mrg[j][printablefmt[k]]) : j \in 1..Len(sacct_mrg)})]

\* The cells of the n-th line written: the header, the jobs, the header
CellsOfLine(n) ==
    IF n = 1 \/ n = Len(sacct_mrg) + 2 THEN HeaderValues
    ELSE Values(sacct_mrg[n - 1], printablefmt)

\* C7: getColumnWidths gives the same widths with and without coloring, each
\* the longest printable cell of its column (header included) plus 2; and in
\* tabulated mode every line written has, once the escape sequences are
\* removed, each cell followed by spaces up to exactly its column's width,
\* so that all lines have the same printable length.
C7_AlignmentIgnoresColor ==
    /\ pc = "widths" =>
          /\ getColumnWidths(sacct_mrg, printablefmt, space, FALSE) = ExpectedWidths
          /\ getColumnWidths(sacct_mrg, printablefmt, space, TRUE) = ExpectedWidths
    /\ pc = "header" => col_widths = ExpectedWidths
    /\ ~tsv =>
          \A n \in 1..Len(stdout) :
              LET plain == StripAnsi(stdout[n])
                  start(k) == SumSeq(SubSeq(col_widths, 1, k - 1))
              IN  /\ Len(plain) = SumSeq(col_widths)
                  /\ \A k \in 1..Len(col_widths) :
                        LET cell == StripAnsi(PyToStr(CellsOfLine(n)[k]))
                        IN  SubSeq(plain, start(k) + 1, start(k) + col_widths[k])
                                = cell \o Spaces(col_widths[k] - Len(cell))

\* A colored table has been written in full: a line of it holds escape
\* sequences that its printable text does not
C7_Witness ==
    /\ pc = "exit"
    /\ ~tsv
    /\ no_color = <<FALSE>>
    /\ Len(sacct_mrg) = 2
    /\ Len(stdout) = 4
    /\ State \in Columns(printablefmt)
    /\ sacct_mrg[1][State] = PyStr(RUNNING)
    /\ sacct_mrg[2][State] = PyStr(COMPLETED)
    /\ Len(stdout[2]) > Len(StripAnsi(stdout[2]))

\* C4: with the reader there to the end, the tabulated output is the header,
\* the rows and the header again; the tab-separated output is the header
\* once, as the first line, and the rows.
C4_HeaderPlacement ==
    (pc = "exit" /\ pipe_open) =>
        LET hdr == tabulate(HeaderValues, col_widths, tsv, no_color[1])
        IN  /\ stdout[1] = hdr
            /\ IF tsv
               THEN Len(stdout) = 1 + Len(sacct_mrg)
               ELSE Len(stdout) = 2 + Len(sacct_mrg) /\ stdout[Len(stdout)] = hdr

\* C6: wherever in the output sequence the reader closes standard output, the
\* run ends normally: no BrokenPipeError leaves the script.
C6_EarlyCloseEndsNormally == pc # "BrokenPipeError"

(***************************************************************************)
(* The query builder and the record parser.                                *)
(***************************************************************************)
xdef == <<JobID, JobName \o <<"%", "5", "0">>, NodeList, MaxRSS, ReqMem, AllocCPUS, State,
          StateSince, Elapsed>>

\* x in lst
InList(str, lst) == \E k \in 1..Len(lst) : lst[k] = str

\* lst.index(x), for x in lst
IndexOf(str, lst) == CHOOSE k \in 1..Len(lst) : lst[k] = str /\ \A m \in 1..(k - 1) : lst[m] # str

\* lst after lst.remove(x), for x in lst
ListRemove(lst, str) ==
    SubSeq(lst, 1, IndexOf(str, lst) - 1) \o SubSeq(lst, IndexOf(str, lst) + 1, Len(lst))

\* [x.lower() for x in lst]
LowerAll(lst) == [k \in 1..Len(lst) |-> Lower(lst[k])]

\* re.sub('%.*', '', str)
StripHint(str) ==
    IF InList("%", str) THEN SubSeq(str, 1, IndexOf("%", str) - 1) ELSE str

\* args.format after the FMT marker is expanded and JobID is made sure of
ExpandFormat(fmt) ==
    LET expanded == IF InList(FMT, fmt)
                    THEN SubSeq(fmt, 1, IndexOf(FMT, fmt) - 1) \o xdef
                            \o SubSeq(fmt, IndexOf(FMT, fmt) + 1, Len(fmt))
                    ELSE fmt
        noMarker == SelectSeq(expanded, LAMBDA f : f # FMT)
    IN  IF ~InList(Lower(JobID), LowerAll(noMarker)) THEN Append(noMarker, JobID)
        ELSE noMarker

\* sacctfmt with a helper field appended unless the test finds it there;
\* the test looks for `probe` among the lower-cased entries
WithHelper(q, probe, field) ==
    IF ~InList(probe, LowerAll(q.sacctfmt))
    THEN [q EXCEPT !.sacctfmt = Append(q.sacctfmt, field), !.remove = Append(q.remove, field)]
    ELSE q

\* The query builder: what it raises, or the three lists it leaves
BuildQuery(fmt) ==
    LET format == ExpandFormat(fmt)
        q0 == [raised |-> "", sacctfmt |-> format,
               printablefmt |-> [k \in 1..Len(format) |-> StripHint(format[k])],
               remove |-> << >>]
    IN  IF ~InList(Lower(StateSince), LowerAll(format)) THEN q0
        ELSE IF ~InList(StateSince, format) THEN [q0 EXCEPT !.raised = "ValueError"]
        ELSE LET q1 == [q0 EXCEPT !.sacctfmt = ListRemove(format, StateSince)]
                 q2 == WithHelper(q1, Lower(Start), Start)
                 q3 == WithHelper(q2, Lower(End), End)
             IN  WithHelper(q3, Submit, Submit)

\* sacct knows its fields whatever the case they are asked in, and heads each
\* column with its own spelling of the field, the width hint dropped.
SacctFields == {JobID, JobName, NodeList, MaxRSS, ReqMem, AllocCPUS, State, Elapsed,
                Start, End, Submit}
SacctKnows(field) == \E f \in SacctFields : Lower(f) = Lower(StripHint(field))
SacctName(field) == CHOOSE f \in SacctFields : Lower(f) = Lower(StripHint(field))

\* The values of the one job of the answer
Timestamp(hh) ==
    <<"2", "0", "2", "4", "-", "0", "5", "-", "0", "1", "T">> \o hh \o <<":", "0", "0", ":", "0", "0">>
SacctValue(f) ==
    CASE f = JobID -> <<"7">>
      [] f = MaxRSS -> <<"2", "0", "4", "8", "K">>
      [] f = ReqMem -> <<"4", "G", "n">>
      [] f = AllocCPUS -> <<"1">>
      [] f = State -> RUNNING
      [] f = Submit -> Timestamp(<<"0", "9">>)
      [] f = Start -> Timestamp(<<"1", "0">>)
      [] f = End -> <<"U", "n", "k", "n", "o", "w", "n">>
      [] f = Elapsed -> <<"0", "0", ":", "0", "1", ":", "0", "0">>
      [] OTHER -> << >>

\* The row csv.DictReader makes of the job, for the fields asked
SacctRow(fields) ==
    [f \in {SacctName(fields[k]) : k \in 1..Len(fields)} |-> PyStr(SacctValue(f))]

\* strptime(str, '%Y-%m-%dT%H:%M:%S') succeeds (by the shape of str; the
\* values of the model are in range)
IsTimestamp(str) ==
    /\ Len(str) = 19
    /\ \A k \in 1..19 :
          CASE k \in {5, 8} -> str[k] = "-"
            [] k = 11 -> str[k] = "T"
            [] k \in {14, 17} -> str[k] = ":"
            [] OTHER -> str[k] \in Digits

\* max(dt) on str
StrMax(S) == CHOOSE m \in S : \A o \in S : ~StrLess(m, o)

get_state_time(timepoints) ==
    LET dt == {timepoints[k].s : k \in {j \in 1..Len(timepoints) : IsTimestamp(timepoints[j].s)}}
    IN  IF dt = {} THEN PyStr(<< >>) ELSE PyStr(StrMax(dt))

\* line with line[field] normalised when the field is there
Normalised(row, field) ==
    IF field \in DOMAIN row
    THEN [row EXCEPT ![field] = normalizeMem(row[field].s).val]
    ELSE row

\* The body of the parser loop on one row: the exception it raises, or the
\* record appended to sacct_out
ParseRow(row, fmt) ==
    LET l2 == Normalised(Normalised(row, MaxRSS), ReqMem)
        derive == InList(StateSince, fmt)
        l3 == IF derive /\ {Submit, Start, End} \subseteq DOMAIN l2
              THEN [f \in DOMAIN l2 \cup {StateSince} |->
                        IF f = StateSince
                        THEN get_state_time(<<l2[Submit], l2[Start], l2[End]>>)
                        ELSE l2[f]]
              ELSE l2
    IN  IF derive /\ ~({Submit, Start, End} \subseteq DOMAIN l2)
        THEN [raised |-> "KeyError", outline |-> << >>]
        ELSE IF \E k \in 1..Len(fmt) : fmt[k] \notin DOMAIN l3
        THEN [raised |-> "KeyError", outline |-> << >>]
        ELSE [raised |-> "",
              outline |-> [f \in Columns(fmt) |->
                              IF Strip(PyToStr(l3[f]), Whitespace) = << >>
                              THEN PyStr(<<".">>)
                              ELSE l3[f]]]

\* The column lists typed after --format: names in sacct's spelling or in
\* lower case, one with a width hint, and the FMT marker.
FormatWords ==
    {JobID, StateSince, Submit, MaxRSS, Start \o <<"%", "2", "0">>, FMT}
        \cup {Lower(JobID), Lower(StateSince), Lower(Submit), Lower(MaxRSS)}

InitQuery ==
    /\ pc = "query"
    /\ args_format \in SeqsUpTo(FormatWords, MaxFormat) \ {<< >>}
    /\ sacctfmt = << >>
    /\ remove = << >>
    /\ reader = << >>
    /\ printablefmt = << >>
    /\ sacct_out = << >>
    /\ tsv = FALSE
    /\ args_no_color = FALSE
    /\ no_color = << >>
    /\ col_widths = << >>
    /\ row_no = 1
    /\ stdout = << >>
    /\ pipe_open = TRUE
    /\ fromId = << >>
    /\ idjob = << >>
    /\ line_no = 1
    /\ printed = << >>
    /\ sacct_mrg = << >>
    /\ MemIdle
    /\ SortIdle

queryRest ==
    <<tsv, args_no_color, no_color, col_widths, row_no, stdout, pipe_open,
      fromId, idjob, line_no, printed, sacct_mrg, memVars, sortVars>>

\* The statements from sacctfmt= [...] to the last remove.append
Build ==
    /\ pc = "query"
    /\ LET q == BuildQuery(args_format)
       IN  IF q.raised # ""
           THEN /\ pc' = q.raised
                /\ UNCHANGED <<sacctfmt, printablefmt, remove>>
           ELSE /\ pc' = "sacct"
                /\ sacctfmt' = q.sacctfmt
                /\ printablefmt' = q.printablefmt
                /\ remove' = q.remove
    /\ UNCHANGED <<args_format, reader, sacct_out, queryRest>>

\* sacct rejects a field it does not know: CalledProcessError, sys.exit(1)
SacctFails ==
    /\ pc = "sacct"
    /\ \E k \in 1..Len(sacctfmt) : ~SacctKnows(sacctfmt[k])
    /\ pc' = "sys.exit(1)"
    /\ UNCHANGED <<args_format, sacctfmt, printablefmt, remove, reader, sacct_out, queryRest>>

\* sacct answers with no job, or with one
RunSacct ==
    /\ pc = "sacct"
    /\ \A k \in 1..Len(sacctfmt) : SacctKnows(sacctfmt[k])
    /\ \E jobs \in 0..1 : reader' = [k \in 1..jobs |-> SacctRow(sacctfmt)]
    /\ pc' = "parse"
    /\ UNCHANGED <<args_format, sacctfmt, printablefmt, remove, sacct_out, queryRest>>

\* One iteration of for line in reader
ParseLine ==
    /\ pc = "parse"
    /\ reader # << >>
    /\ LET r == ParseRow(Head(reader), printablefmt)
       IN  IF r.raised # ""
           THEN /\ pc' = r.raised
                /\ UNCHANGED <<reader, sacct_out>>
           ELSE /\ pc' = pc
                /\ reader' = Tail(reader)
                /\ sacct_out' = Append(sacct_out, r.outline)
    /\ UNCHANGED <<args_format, sacctfmt, printablefmt, remove, queryRest>>

ParseEnd ==
    /\ pc = "parse"
    /\ reader = << >>
    /\ pc' = "merge"
    /\ UNCHANGED <<args_format, sacctfmt, printablefmt, remove, reader, sacct_out, queryRest>>

NextQuery ==
    \/ Build
    \/ SacctFails
    \/ RunSacct
    \/ ParseLine
    \/ ParseEnd

SpecQuery == InitQuery /\ [][NextQuery]_vars

\* The statements of the builder have run without raising
Built == pc \in {"sacct", "sys.exit(1)", "parse", "KeyError", "merge"}

\* A column word in sacct's spelling, its width hint kept
CanonicalWord(word) ==
    LET name == StripHint(word)
        hint == SubSeq(word, Len(name) + 1, Len(word))
        known == {f \in SacctFields \cup {StateSince} : Lower(f) = Lower(name)}
    IN  IF known = {} THEN word ELSE (CHOOSE f \in known : TRUE) \o hint

Canonical(fmt) == [k \in 1..Len(fmt) |-> CanonicalWord(fmt[k])]

\* What the parser makes of sacct's answer of `jobs` rows to the query q
Parsed(q, jobs) == [k \in 1..jobs |-> ParseRow(SacctRow(q.sacctfmt), q.printablefmt)]

\* C9: column names are case insensitive. Whatever the letter case of the
\* requested columns, the run raises only where the canonical spelling of the
\* same request raises, the query has the same fields and helper fields, and
\* the parsed records carry, column by column, the same normalised and
\* derived values as with the canonical spelling.
C9_ColumnNamesCaseInsensitive ==
    LET canon == BuildQuery(Canonical(args_format))
    IN  /\ pc = "ValueError" => canon.raised = "ValueError"
        /\ Built =>
              /\ canon.raised = ""
              /\ LowerAll(sacctfmt) = LowerAll(canon.sacctfmt)
              /\ LowerAll(printablefmt) = LowerAll(canon.printablefmt)
              /\ remove = canon.remove
        /\ pc = "KeyError" => Parsed(canon, 1)[1].raised = "KeyError"
        /\ pc = "merge" =>
              \A k \in 1..Len(sacct_out) :
                 /\ Parsed(canon, Len(sacct_out))[k].raised = ""
                 /\ \A c \in 1..Len(printablefmt) :
                       sacct_out[k][printablefmt[c]]
                          = Parsed(canon, Len(sacct_out))[k].outline[canon.printablefmt[c]]

\* The requested columns: args.format with the FMT marker expanded and JobID
\* made sure of
Requested == ExpandFormat(args_format)

\* The caller asked for the field, with a width hint or without
Asked(field) ==
    \E k \in 1..Len(Requested) : Lower(StripHint(Requested[k])) = Lower(field)

\* The helper fields the caller did not ask for, in the order they are added
MissingHelpers == SelectSeq(<<Start, End, Submit>>, LAMBDA f : ~Asked(f))

\* C10: once the query is built, if StateSince is requested the fields sent
\* to sacct are the requested ones without StateSince followed by each of
\* Start, End, Submit the caller did not request, no field twice on account
\* of a helper, and the displayed columns are the requested ones with the
\* width hints stripped; if StateSince is not requested the query is the
\* requested list and no helper field is added.
C10_HelperFields ==
    Built =>
       /\ printablefmt = [k \in 1..Len(Requested) |-> StripHint(Requested[k])]
       /\ IF InList(StateSince, Requested)
          THEN /\ sacctfmt = SelectSeq(Requested, LAMBDA f : f # StateSince) \o MissingHelpers
               /\ remove = MissingHelpers
               /\ \A h \in {Start, End, Submit} :
                     Asked(h) =>
                        Cardinality({k \in 1..Len(sacctfmt) :
                                        Lower(StripHint(sacctfmt[k])) = Lower(h)})
                           = Cardinality({k \in 1..Len(Requested) :
                                        Lower(StripHint(Requested[k])) = Lower(h)})
          ELSE /\ sacctfmt = Requested
               /\ remove = << >>

=============================================================================
